---- MODULE Spec2Model ----
(***************************************************************************)
(* Identity and access control of the Academic Records backend:            *)
(*   - the flat-file credential store (utils/userManager.js),               *)
(*   - token issuance, refresh and revocation (controllers/authController), *)
(*   - the access control middleware (middleware/auth.js) and the routes.   *)
(*                                                                         *)
(* Node runs one handler at a time; a handler gives up the processor only   *)
(* at an await that waits for bcrypt (hash, compare).  Each action below is *)
(* the code between two such awaits.  An await on a promise that is already *)
(* settled only yields to micro-tasks of the same request and is not a      *)
(* scheduling point.                                                        *)
(***************************************************************************)
EXTENDS Integers, Sequences, FiniteSets, TLC

VARIABLES
    users,          \* content of data/users.json: a sequence of account records
    refreshTokens,  \* authController.refreshTokens: Map token -> {userId, createdAt}
    now,            \* the clock (Date.now(), and the second jsonwebtoken stamps into iat)
    tasks,          \* the async calls in flight, each suspended at its bcrypt await
    resp,           \* what the last step sent back (NoResp when it sent nothing)
    held,           \* the access token a client presents to the routes
    revoked,        \* history: the refresh token the last completed logout was called with
    req             \* the request travelling through the middleware chain

vars == <<users, refreshTokens, now, tasks, resp, held, revoked, req>>

----------------------------------------------------------------------------
(* Bounds of the model *)

MaxNow == 2
MaxUsers == 3
MaxTasks == 2

(* Program constants.  The two lifetimes are read from the environment     *)
(* (JWT_EXPIRY, JWT_REFRESH_EXPIRY); the model runs with a configuration of *)
(* one and two clock ticks, the access token the shorter lived as in the    *)
(* defaults '24h' and '7d'.                                                 *)
JWT_EXPIRY == 1
JWT_REFRESH_EXPIRY == 2
MinPasswordLength == 6

JWT_SECRET == "default-secret-change-in-production"
SALT_PREFIX == "$2a$10$"

Slots == 1..MaxTasks

----------------------------------------------------------------------------
(* JavaScript values *)

Null == "null"
Undefined == "undefined"

\* !v for the string-or-null values the handlers test
Falsy(v) == v \in {Null, Undefined, ""}

\* a || b
OrElse(a, b) == IF Falsy(a) THEN b ELSE a

\* { ...a, ...b }
Merge(a, b) == [k \in DOMAIN a \cup DOMAIN b |-> IF k \in DOMAIN b THEN b[k] ELSE a[k]]

\* const { passwordHash: _, ...rest } = user
WithoutPassword(user) == [k \in DOMAIN user \ {"passwordHash"} |-> user[k]]

Chars(s) == [i \in 1..Len(s) |-> SubSeq(s, i, i)]

\* /^[^\s@]+@[^\s@]+\.[^\s@]+$/.test(email)
emailRegex(email) ==
    LET c == Chars(email)
        n == Len(email)
        ats == {i \in 1..n : c[i] = "@"}
    IN  /\ \A i \in 1..n : c[i] # " "
        /\ Cardinality(ats) = 1
        /\ \E a \in ats : /\ a > 1
                          /\ \E d \in (a + 2)..(n - 1) : c[d] = "."

\* bcrypt.hash(password, SALT_ROUNDS): one-way, never the plaintext itself
Hash(password) == SALT_PREFIX \o password

\* bcrypt.compare(password, hash)
Compare(password, hash) == hash = Hash(password)

----------------------------------------------------------------------------
(* utils/mspMapper.js *)

MSP_IDS ==
    [NITWarangalMSP |-> "NITWarangalMSP", DepartmentsMSP |-> "DepartmentsMSP",
     VerifiersMSP |-> "VerifiersMSP"]

ROLE_TO_MSP ==
    [admin |-> MSP_IDS.NITWarangalMSP, student |-> MSP_IDS.NITWarangalMSP,
     department |-> MSP_IDS.DepartmentsMSP, verifier |-> MSP_IDS.VerifiersMSP]

\* ROLE_TO_MSP is an object literal: besides its own keys, a lookup finds the
\* properties it inherits from Object.prototype
ObjectPrototypeKeys ==
    {"constructor", "toString", "valueOf", "hasOwnProperty", "isPrototypeOf",
     "propertyIsEnumerable", "toLocaleString", "__proto__"}

\* the (truthy) value of an inherited property
Inherited(key) == "[Object.prototype." \o key \o "]"

\* ROLE_TO_MSP[role] || null
getMSPForRole(role) ==
    IF role \in DOMAIN ROLE_TO_MSP THEN ROLE_TO_MSP[role]
    ELSE IF role \in ObjectPrototypeKeys THEN Inherited(role)
    ELSE Null

isValidRole(role) == role \in DOMAIN ROLE_TO_MSP

----------------------------------------------------------------------------
(* utils/userManager.js: the store *)

\* the file written when data/users.json does not exist
defaultUsers ==
    << [id |-> "admin", username |-> "admin", email |-> "admin@nitw.edu",
        passwordHash |-> Hash("admin123"), role |-> "admin", department |-> Null,
        createdAt |-> 0, isActive |-> TRUE] >>

\* Array.prototype.findIndex on one field, 0 standing for -1 / not found
FindIndex(us, field, value) ==
    LET S == {i \in 1..Len(us) : us[i][field] = value}
    IN  IF S = {} THEN 0 ELSE CHOOSE i \in S : \A j \in S : i <= j

\* the find* functions return the index of the record they return, 0 for null
findUserByUsername(us, username) == FindIndex(us, "username", username)
findUserByEmail(us, email) == FindIndex(us, "email", email)
findUserById(us, id) == FindIndex(us, "id", id)

\* createUser looking for the username only
createUserCheckUsernameOnly(us, d) ==
    IF Falsy(d.username) \/ Falsy(d.password) \/ Falsy(d.email) \/ Falsy(d.role)
        THEN "Missing required fields"
    ELSE IF ~isValidRole(d.role) THEN "Invalid role"
    ELSE IF d.role \in {"faculty", "student"} /\ Falsy(d.department)
        THEN "Department is required"
    ELSE IF findUserByUsername(us, d.username) # 0 THEN "Username already exists"
    ELSE "ok"

\* createUser up to its await: the error it throws, or "ok"
createUserCheck(us, d) ==
    IF Falsy(d.username) \/ Falsy(d.password) \/ Falsy(d.email) \/ Falsy(d.role)
        THEN "Missing required fields"
    ELSE IF ~isValidRole(d.role) THEN "Invalid role"
    ELSE IF d.role \in {"faculty", "student"} /\ Falsy(d.department)
        THEN "Department is required"
    ELSE IF findUserByUsername(us, d.username) # 0 THEN "Username already exists"
    ELSE IF findUserByEmail(us, d.email) # 0 THEN "Email already exists"
    ELSE "ok"

\* the record createUser builds after the hash is computed
newUserRecord(d, t) ==
    [id |-> d.role \o "-" \o ToString(t), username |-> d.username, email |-> d.email,
     passwordHash |-> Hash(d.password), role |-> d.role,
     department |-> OrElse(d.department, Null),
     createdAt |-> t, updatedAt |-> t, isActive |-> TRUE]

----------------------------------------------------------------------------
(* Responses and tasks *)

NoResp == [op |-> "none"]
Idle == [op |-> "idle"]
NoToken == [typ |-> "none"]
NoUser == [role |-> Undefined]
NoHeld == [token |-> NoToken, user |-> NoUser]
NoReq == [stage |-> "none"]

\* creations in flight count against the bound on the store
Creating == Cardinality({t \in Slots : tasks[t].op \in {"createUser", "createStudentUser"}})
Room == Len(users) + Creating < MaxUsers

\* a call that starts takes the first free place among the calls in flight
Free(t) == tasks[t] = Idle /\ \A s \in Slots : s < t => tasks[s] # Idle

\* the fields of the account that register and login put in their answer
userView(u) ==
    [id |-> u.id, username |-> u.username, email |-> u.email, role |-> u.role,
     department |-> u.department, mspId |-> getMSPForRole(u.role)]

----------------------------------------------------------------------------
(* POST /api/auth/register *)

\* the status register answers for an error thrown by createUser
registerErrorStatus(message) ==
    IF message \in {"Username already exists", "Email already exists"} THEN 409
    ELSE IF message = "Invalid role" THEN 400
    ELSE 500

\* register up to the await inside createUser: the status it answers, 0 when it goes on
registerCheck(us, b) ==
    IF Falsy(b.username) \/ Falsy(b.password) \/ Falsy(b.email) \/ Falsy(b.role) THEN 400
    ELSE IF Len(b.password) < MinPasswordLength THEN 400
    ELSE IF ~emailRegex(b.email) THEN 400
    ELSE LET e == createUserCheck(us, [b EXCEPT !.department = OrElse(b.department, Null)])
         IN  IF e = "ok" THEN 0 ELSE registerErrorStatus(e)

RegisterStart(t, b) ==
    /\ Free(t)
    /\ Room
    /\ LET status == registerCheck(users, b)
       IN  IF status = 0
           THEN /\ tasks' = [tasks EXCEPT ![t] =
                        [op |-> "createUser",
                         data |-> [b EXCEPT !.department = OrElse(b.department, Null)]]]
                /\ resp' = NoResp
           ELSE /\ tasks' = tasks
                /\ resp' = [op |-> "register", status |-> status,
                            username |-> b.username, email |-> b.email]
    /\ UNCHANGED <<users, refreshTokens, now, held, revoked, req>>

\* createUser after bcrypt.hash, and the answer of register (every branch of the
\* ledger step that follows answers 201 with the same account data)
RegisterFinish(t) ==
    /\ tasks[t].op = "createUser"
    /\ LET newUser == newUserRecord(tasks[t].data, now)
       IN  /\ users' = Append(users, newUser)
           /\ resp' = [op |-> "register", status |-> 201,
                       username |-> newUser.username, email |-> newUser.email,
                       user |-> userView(newUser)]
    /\ tasks' = [tasks EXCEPT ![t] = Idle]
    /\ UNCHANGED <<refreshTokens, now, held, revoked, req>>

----------------------------------------------------------------------------
(* userManager.deleteUser *)

\* deleteUser refusing an account that is already inactive
DeleteUserActiveOnly(userId) ==
    LET i == findUserById(users, userId)
    IN  /\ IF i = 0 \/ ~users[IF i = 0 THEN 1 ELSE i].isActive
           THEN /\ users' = users
                /\ resp' = [op |-> "deleteUser", userId |-> userId, error |-> "User not found"]
           ELSE /\ users' = [users EXCEPT ![i] = Merge(@, [isActive |-> FALSE, updatedAt |-> now])]
                /\ resp' = [op |-> "deleteUser", userId |-> userId, error |-> "none"]
        /\ UNCHANGED <<refreshTokens, now, tasks, held, revoked, req>>

DeleteUser(userId) ==
    LET i == findUserById(users, userId)
    IN  /\ IF i = 0
           THEN /\ users' = users
                /\ resp' = [op |-> "deleteUser", userId |-> userId, error |-> "User not found"]
           ELSE /\ users' = [users EXCEPT ![i] = Merge(@, [isActive |-> FALSE, updatedAt |-> now])]
                /\ resp' = [op |-> "deleteUser", userId |-> userId, error |-> "none"]
        /\ UNCHANGED <<refreshTokens, now, tasks, held, revoked, req>>

----------------------------------------------------------------------------
(* jsonwebtoken: a token is its payload and the key that signed it.  Two    *)
(* tokens signed over the same payload in the same second are the same       *)
(* string.                                                                  *)

jwtSign(payload, secret, expiresIn, t) ==
    Merge(payload, [key |-> secret, iat |-> t, exp |-> t + expiresIn])

\* jwt.verify accepting a token in the second it expires
jwtVerifyLate(token, secret, t) ==
    IF token.key # secret THEN "JsonWebTokenError"
    ELSE IF t > token.exp THEN "TokenExpiredError"
    ELSE "ok"

\* jwt.verify(token, secret): "ok", or the name of the error it throws
jwtVerify(token, secret, t) ==
    IF token.key # secret THEN "JsonWebTokenError"
    ELSE IF t >= token.exp THEN "TokenExpiredError"
    ELSE "ok"

generateAccessToken(user, t) ==
    jwtSign([userId |-> user.id, username |-> user.username, role |-> user.role,
             mspId |-> getMSPForRole(user.role), department |-> user.department,
             email |-> user.email],
            JWT_SECRET, JWT_EXPIRY, t)

\* the token generateRefreshToken signs
refreshTokenFor(user, t) ==
    jwtSign([userId |-> user.id, username |-> user.username],
            JWT_SECRET, JWT_REFRESH_EXPIRY, t)

EmptyMap == [k \in {} |-> Null]
MapSet(m, k, v) == [x \in DOMAIN m \cup {k} |-> IF x = k THEN v ELSE m[x]]
MapDelete(m, k) == [x \in DOMAIN m \ {k} |-> m[x]]

\* the registry after generateRefreshToken(user)
registerRefreshToken(m, user, t) ==
    MapSet(m, refreshTokenFor(user, t), [userId |-> user.id, createdAt |-> t])

\* a token signed with another key
forgedRefreshToken ==
    jwtSign([userId |-> "admin", username |-> "admin"], "guess", JWT_REFRESH_EXPIRY, 0)

----------------------------------------------------------------------------
(* userManager.authenticateUser *)

\* email first, then username
authLookup(us, identifier) ==
    LET i == findUserByEmail(us, identifier)
    IN  IF i # 0 THEN i ELSE findUserByUsername(us, identifier)

\* authenticateUser up to bcrypt.compare: the index of the account whose hash
\* it goes on to compare, 0 when it returns null at once
authenticatePending(us, identifier) ==
    LET i == authLookup(us, identifier)
    IN  IF i = 0 THEN 0 ELSE IF ~us[i].isActive THEN 0 ELSE i

\* what authenticateUser returns when nothing runs during its await: the index
\* of the account, 0 for null
authenticateUser(us, identifier, password) ==
    LET i == authenticatePending(us, identifier)
    IN  IF i = 0 THEN 0
        ELSE IF Compare(password, us[i].passwordHash) THEN i ELSE 0

AuthenticateUserStart(t, identifier, password) ==
    /\ Free(t)
    /\ LET i == authenticatePending(users, identifier)
       IN  IF i = 0
           THEN /\ tasks' = tasks
                /\ resp' = [op |-> "authenticateUser", identifier |-> identifier,
                            password |-> password, found |-> FALSE]
           ELSE /\ tasks' = [tasks EXCEPT ![t] =
                        [op |-> "authenticateUser", identifier |-> identifier,
                         password |-> password, user |-> users[i]]]
                /\ resp' = NoResp
    /\ UNCHANGED <<users, refreshTokens, now, held, revoked, req>>

AuthenticateUserFinish(t) ==
    /\ tasks[t].op = "authenticateUser"
    /\ resp' = IF Compare(tasks[t].password, tasks[t].user.passwordHash)
               THEN [op |-> "authenticateUser", identifier |-> tasks[t].identifier,
                     password |-> tasks[t].password, found |-> TRUE,
                     user |-> WithoutPassword(tasks[t].user)]
               ELSE [op |-> "authenticateUser", identifier |-> tasks[t].identifier,
                     password |-> tasks[t].password, found |-> FALSE]
    /\ tasks' = [tasks EXCEPT ![t] = Idle]
    /\ UNCHANGED <<users, refreshTokens, now, held, revoked, req>>

----------------------------------------------------------------------------
(* POST /api/auth/login *)

loginFailed == [op |-> "login", status |-> 401, message |-> "Invalid credentials"]

\* login once authenticateUser has returned null: with an email in the body it
\* looks the identifier up as a username and authenticates again; the result is
\* the index of the account whose hash is compared next, 0 when login answers 401
loginRetry(us, b, attempt) ==
    IF attempt = 1 /\ ~Falsy(b.email)
    THEN LET j == findUserByUsername(us, OrElse(b.email, b.username))
         IN  IF j = 0 THEN 0 ELSE authenticatePending(us, us[j].username)
    ELSE 0

\* login telling an inactive account from an unknown one
LoginStartDisclosing(t, b) ==
    /\ Free(t)
    /\ LET identifier == OrElse(b.email, b.username)
           i == authenticatePending(users, identifier)
           j == IF i # 0 THEN i ELSE loginRetry(users, b, 1)
       IN  IF Falsy(identifier) \/ Falsy(b.password)
           THEN /\ tasks' = tasks
                /\ resp' = [op |-> "login", status |-> 400]
           ELSE IF j = 0 /\ authLookup(users, identifier) # 0
           THEN /\ tasks' = tasks
                /\ resp' = [op |-> "login", status |-> 403, message |-> "Account is inactive"]
           ELSE IF j = 0
           THEN /\ tasks' = tasks
                /\ resp' = loginFailed
           ELSE /\ tasks' = [tasks EXCEPT ![t] =
                        [op |-> "login", body |-> b, user |-> users[j],
                         attempt |-> IF i # 0 THEN 1 ELSE 2]]
                /\ resp' = NoResp
    /\ UNCHANGED <<users, refreshTokens, now, held, revoked, req>>

LoginStart(t, b) ==
    /\ Free(t)
    /\ LET identifier == OrElse(b.email, b.username)
           i == authenticatePending(users, identifier)
           j == IF i # 0 THEN i ELSE loginRetry(users, b, 1)
       IN  IF Falsy(identifier) \/ Falsy(b.password)
           THEN /\ tasks' = tasks
                /\ resp' = [op |-> "login", status |-> 400]
           ELSE IF j = 0
           THEN /\ tasks' = tasks
                /\ resp' = loginFailed
           ELSE /\ tasks' = [tasks EXCEPT ![t] =
                        [op |-> "login", body |-> b, user |-> users[j],
                         attempt |-> IF i # 0 THEN 1 ELSE 2]]
                /\ resp' = NoResp
    /\ UNCHANGED <<users, refreshTokens, now, held, revoked, req>>

\* login after bcrypt.compare
LoginResume(t) ==
    /\ tasks[t].op = "login"
    /\ LET task == tasks[t]
           user == WithoutPassword(task.user)
           j == loginRetry(users, task.body, task.attempt)
       IN  IF Compare(task.body.password, task.user.passwordHash)
           THEN /\ refreshTokens' = registerRefreshToken(refreshTokens, user, now)
                /\ resp' = [op |-> "login", status |-> 200,
                            accessToken |-> generateAccessToken(user, now),
                            refreshToken |-> refreshTokenFor(user, now),
                            user |-> userView(user)]
                /\ tasks' = [tasks EXCEPT ![t] = Idle]
           ELSE IF j # 0
           THEN /\ tasks' = [tasks EXCEPT ![t] = [task EXCEPT !.user = users[j], !.attempt = 2]]
                /\ resp' = NoResp
                /\ UNCHANGED refreshTokens
           ELSE /\ tasks' = [tasks EXCEPT ![t] = Idle]
                /\ resp' = loginFailed
                /\ UNCHANGED refreshTokens
    /\ UNCHANGED <<users, now, held, revoked, req>>

----------------------------------------------------------------------------
(* POST /api/auth/refresh *)

\* refresh rotating the refresh token: it takes rt out of the registry
RefreshRotating(rt) ==
    /\ LET v == jwtVerify(rt, JWT_SECRET, now)
           i == findUserByUsername(users, rt.username)
       IN  IF rt \notin DOMAIN refreshTokens
           THEN /\ resp' = [op |-> "refresh", status |-> 403, refreshToken |-> rt,
                            message |-> "Invalid refresh token"]
                /\ UNCHANGED refreshTokens
           ELSE IF v = "TokenExpiredError"
           THEN /\ resp' = [op |-> "refresh", status |-> 403, refreshToken |-> rt,
                            message |-> "Refresh token expired"]
                /\ UNCHANGED refreshTokens
           ELSE IF v # "ok"
           THEN /\ resp' = [op |-> "refresh", status |-> 403, refreshToken |-> rt,
                            message |-> "Invalid refresh token"]
                /\ UNCHANGED refreshTokens
           ELSE IF i = 0 \/ ~users[i].isActive
           THEN /\ refreshTokens' = MapDelete(refreshTokens, rt)
                /\ resp' = [op |-> "refresh", status |-> 403, refreshToken |-> rt,
                            message |-> "User not found or inactive"]
           ELSE /\ resp' = [op |-> "refresh", status |-> 200, refreshToken |-> rt,
                            accessToken |-> generateAccessToken(users[i], now)]
                /\ refreshTokens' = MapDelete(refreshTokens, rt)
    /\ UNCHANGED <<users, now, tasks, held, revoked, req>>

Refresh(rt) ==
    /\ LET v == jwtVerify(rt, JWT_SECRET, now)
           i == findUserByUsername(users, rt.username)
       IN  IF rt \notin DOMAIN refreshTokens
           THEN /\ resp' = [op |-> "refresh", status |-> 403, refreshToken |-> rt,
                            message |-> "Invalid refresh token"]
                /\ UNCHANGED refreshTokens
           ELSE IF v = "TokenExpiredError"
           THEN /\ resp' = [op |-> "refresh", status |-> 403, refreshToken |-> rt,
                            message |-> "Refresh token expired"]
                /\ UNCHANGED refreshTokens
           ELSE IF v # "ok"
           THEN /\ resp' = [op |-> "refresh", status |-> 403, refreshToken |-> rt,
                            message |-> "Invalid refresh token"]
                /\ UNCHANGED refreshTokens
           ELSE IF i = 0 \/ ~users[i].isActive
           THEN /\ refreshTokens' = MapDelete(refreshTokens, rt)
                /\ resp' = [op |-> "refresh", status |-> 403, refreshToken |-> rt,
                            message |-> "User not found or inactive"]
           ELSE /\ resp' = [op |-> "refresh", status |-> 200, refreshToken |-> rt,
                            accessToken |-> generateAccessToken(users[i], now)]
                /\ UNCHANGED refreshTokens
    /\ UNCHANGED <<users, now, tasks, held, revoked, req>>

----------------------------------------------------------------------------
(* POST /api/auth/logout *)

Logout(rt) ==
    /\ refreshTokens' = IF rt \in DOMAIN refreshTokens
                        THEN MapDelete(refreshTokens, rt) ELSE refreshTokens
    /\ revoked' = rt
    /\ resp' = [op |-> "logout", status |-> 200, refreshToken |-> rt]
    /\ UNCHANGED <<users, now, tasks, held, req>>

----------------------------------------------------------------------------
(* userManager.updateUser *)

allowedUpdates == {"email", "department", "isActive"}

\* updateUser copying every key of updates but the password
unsanitizedUpdates(updates) ==
    [k \in DOMAIN updates \ {"password"} |-> updates[k]]

\* the allowed keys the caller gave a value for (an absent key is undefined)
sanitizedUpdates(updates) ==
    [k \in allowedUpdates \cap DOMAIN updates |-> updates[k]]

UpdateUserStart(t, userId, updates) ==
    /\ Free(t)
    /\ LET i == findUserById(users, userId)
       IN  IF i = 0
           THEN /\ resp' = [op |-> "updateUser", userId |-> userId, error |-> "User not found"]
                /\ UNCHANGED <<users, tasks>>
           ELSE IF "password" \in DOMAIN updates /\ ~Falsy(updates.password)
           THEN /\ tasks' = [tasks EXCEPT ![t] =
                        [op |-> "updateUser", userId |-> userId, users |-> users, index |-> i,
                         sanitized |-> sanitizedUpdates(updates),
                         password |-> updates.password]]
                /\ resp' = NoResp
                /\ UNCHANGED users
           ELSE /\ users' = [users EXCEPT ![i] =
                        Merge(Merge(@, sanitizedUpdates(updates)), [updatedAt |-> now])]
                /\ resp' = [op |-> "updateUser", userId |-> userId, error |-> "none"]
                /\ UNCHANGED tasks
    /\ UNCHANGED <<refreshTokens, now, held, revoked, req>>

\* updateUser after bcrypt.hash: it writes the array it loaded before the await
UpdateUserFinish(t) ==
    /\ tasks[t].op = "updateUser"
    /\ LET task == tasks[t]
       IN  users' = [task.users EXCEPT ![task.index] =
                        Merge(Merge(Merge(@, task.sanitized),
                                    [passwordHash |-> Hash(task.password)]),
                              [updatedAt |-> now])]
    /\ resp' = [op |-> "updateUser", userId |-> tasks[t].userId, error |-> "none"]
    /\ tasks' = [tasks EXCEPT ![t] = Idle]
    /\ UNCHANGED <<refreshTokens, now, held, revoked, req>>

----------------------------------------------------------------------------
(* userManager.changePassword and POST /api/auth/change-password *)

\* the status changePasswordEndpoint answers for an error thrown by changePassword
changePasswordStatus(error) ==
    IF error = "none" THEN 200
    ELSE IF error = "Current password is incorrect" THEN 400
    ELSE 500

ChangePasswordStart(t, userId, oldPassword, newPassword) ==
    /\ Free(t)
    /\ LET i == findUserById(users, userId)
       IN  IF i = 0
           THEN /\ resp' = [op |-> "changePassword", userId |-> userId,
                            error |-> "User not found",
                            status |-> changePasswordStatus("User not found")]
                /\ UNCHANGED tasks
           ELSE /\ tasks' = [tasks EXCEPT ![t] =
                        [op |-> "changePassword", userId |-> userId, users |-> users,
                         index |-> i, oldPassword |-> oldPassword,
                         newPassword |-> newPassword]]
                /\ resp' = NoResp
    /\ UNCHANGED <<users, refreshTokens, now, held, revoked, req>>

\* changePassword writing the new hash whatever bcrypt.compare said
ChangePasswordFinishUnchecked(t) ==
    /\ tasks[t].op = "changePassword"
    /\ LET task == tasks[t]
       IN  /\ users' = [task.users EXCEPT ![task.index] =
                        Merge(@, [passwordHash |-> Hash(task.newPassword),
                                  updatedAt |-> now])]
           /\ resp' = [op |-> "changePassword", userId |-> task.userId,
                       error |-> "none", status |-> changePasswordStatus("none"),
                       newPassword |-> task.newPassword]
    /\ tasks' = [tasks EXCEPT ![t] = Idle]
    /\ UNCHANGED <<refreshTokens, now, held, revoked, req>>

\* changePassword after bcrypt.compare and bcrypt.hash (nothing shared is read or
\* written between the two awaits): it writes the array it loaded before them
ChangePasswordFinish(t) ==
    /\ tasks[t].op = "changePassword"
    /\ LET task == tasks[t]
       IN  IF ~Compare(task.oldPassword, task.users[task.index].passwordHash)
           THEN /\ resp' = [op |-> "changePassword", userId |-> task.userId,
                            error |-> "Current password is incorrect",
                            status |-> changePasswordStatus("Current password is incorrect")]
                /\ UNCHANGED users
           ELSE /\ users' = [task.users EXCEPT ![task.index] =
                        Merge(@, [passwordHash |-> Hash(task.newPassword),
                                  updatedAt |-> now])]
                /\ resp' = [op |-> "changePassword", userId |-> task.userId,
                            error |-> "none", status |-> changePasswordStatus("none"),
                            newPassword |-> task.newPassword]
    /\ tasks' = [tasks EXCEPT ![t] = Idle]
    /\ UNCHANGED <<refreshTokens, now, held, revoked, req>>

----------------------------------------------------------------------------
(* scripts/createStudentFromBlockchain: the account StudentController.createStudent
   provisions for a student it has put on the ledger *)

studentRecord(d, t) ==
    [id |-> "student-" \o ToString(t), username |-> d.rollNumber,
     email |-> OrElse(d.email, d.rollNumber \o "@student.nitw.ac.in"),
     passwordHash |-> Hash(d.rollNumber), name |-> d.name, role |-> "student",
     department |-> OrElse(d.department, "CSE"), mspId |-> "NITWarangalMSP",
     createdAt |-> t, isActive |-> TRUE, passwordChangeRequired |-> TRUE,
     firstLogin |-> TRUE]

CreateStudentUserStart(t, d) ==
    /\ Free(t)
    /\ Room
    /\ IF findUserByUsername(users, d.rollNumber) # 0
       THEN /\ resp' = [op |-> "createStudentUser", success |-> FALSE,
                        username |-> d.rollNumber]
            /\ UNCHANGED tasks
       ELSE /\ tasks' = [tasks EXCEPT ![t] =
                    [op |-> "createStudentUser", users |-> users, data |-> d]]
            /\ resp' = NoResp
    /\ UNCHANGED <<users, refreshTokens, now, held, revoked, req>>

\* after bcrypt.hash: it appends to the array it read before the await
CreateStudentUserFinish(t) ==
    /\ tasks[t].op = "createStudentUser"
    /\ users' = Append(tasks[t].users, studentRecord(tasks[t].data, now))
    /\ resp' = [op |-> "createStudentUser", success |-> TRUE,
                username |-> tasks[t].data.rollNumber]
    /\ tasks' = [tasks EXCEPT ![t] = Idle]
    /\ UNCHANGED <<refreshTokens, now, held, revoked, req>>

----------------------------------------------------------------------------
(* String.prototype.toUpperCase and substring *)

LowerCase == <<"a", "b", "c", "d", "e", "f", "g", "h", "i", "j", "k", "l", "m",
               "n", "o", "p", "q", "r", "s", "t", "u", "v", "w", "x", "y", "z">>
UpperCase == <<"A", "B", "C", "D", "E", "F", "G", "H", "I", "J", "K", "L", "M",
               "N", "O", "P", "Q", "R", "S", "T", "U", "V", "W", "X", "Y", "Z">>

upperChar(c) ==
    IF \E i \in 1..26 : LowerCase[i] = c
    THEN UpperCase[CHOOSE i \in 1..26 : LowerCase[i] = c]
    ELSE c

RECURSIVE toUpperCase(_)
toUpperCase(s) ==
    IF Len(s) = 0 THEN ""
    ELSE upperChar(SubSeq(s, 1, 1)) \o toUpperCase(SubSeq(s, 2, Len(s)))

\* s.substring(0, n)
substring0(s, n) == SubSeq(s, 1, IF Len(s) < n THEN Len(s) ELSE n)

----------------------------------------------------------------------------
(* The routes: routes/studentRoutes (mounted on /api/students) and
   routes/recordRoutes (mounted on /api/records).  Each route is the chain
   express runs for it: router.use(authenticateToken), then requireRole with
   its allow-list when the route has one, then enforceDepartmentAccess when
   the route has it, then the controller.  param is the parameter its path
   addresses a student or a department by. *)

Route(name, roles, enforce, param) ==
    [name |-> name, roles |-> roles, enforce |-> enforce, param |-> param]

NoRoles == << >>

studentRoutes ==
    { Route("POST /students", <<"admin">>, FALSE, "none"),
      Route("GET /students/all", <<"admin", "faculty">>, FALSE, "none"),
      Route("GET /students/:rollNumber", NoRoles, FALSE, "rollNumber"),
      Route("GET /students/:rollNumber/private", <<"admin">>, FALSE, "rollNumber"),
      Route("PATCH /students/:rollNumber/status", <<"admin">>, FALSE, "rollNumber"),
      Route("PATCH /students/:rollNumber/department", <<"admin">>, FALSE, "rollNumber"),
      Route("PATCH /students/:rollNumber/contact", <<"admin", "faculty">>, TRUE, "rollNumber"),
      Route("GET /students/department/:department", <<"admin", "faculty">>, FALSE, "department"),
      Route("GET /students/status/:status", <<"admin", "faculty">>, FALSE, "none"),
      Route("GET /students/year/:year", <<"admin", "faculty">>, FALSE, "none"),
      Route("GET /students/:rollNumber/cgpa", NoRoles, FALSE, "rollNumber") }

recordRoutes ==
    { Route("POST /records", <<"admin", "faculty">>, TRUE, "none"),
      Route("GET /records/:recordID", NoRoles, FALSE, "none"),
      Route("POST /records/:recordID/approve", <<"admin">>, FALSE, "none"),
      Route("GET /records/student/:rollNumber", NoRoles, FALSE, "rollNumber"),
      Route("GET /records/semester/:semester", <<"admin", "faculty">>, FALSE, "none"),
      Route("GET /records/pending/all", <<"admin", "faculty">>, FALSE, "none"),
      Route("GET /records/department/:department", <<"admin", "faculty">>, FALSE, "department") }

Routes == studentRoutes \cup recordRoutes

\* the middleware express runs for a route, in order
chain(route) ==
    <<"authenticateToken">>
    \o (IF route.roles # NoRoles THEN <<"requireRole">> ELSE << >>)
    \o (IF route.enforce THEN <<"enforceDepartmentAccess">> ELSE << >>)
    \o <<"handler">>

----------------------------------------------------------------------------
(* middleware/auth.js.  A request is at position pos of its chain; a
   middleware either answers (the request ends with that status) or calls
   next() (the request moves to the next position). *)

field(decoded, k) == IF k \in DOMAIN decoded THEN decoded[k] ELSE Undefined

\* req.user as authenticateToken and optionalAuth build it from the payload
principalOf(decoded) ==
    [userId |-> field(decoded, "userId"), username |-> field(decoded, "username"),
     role |-> field(decoded, "role"), mspId |-> field(decoded, "mspId"),
     department |-> OrElse(field(decoded, "department"), Null),
     email |-> OrElse(field(decoded, "email"), Null)]

At(name) ==
    /\ req.stage = "running"
    /\ chain(req.route)[req.pos] = name

callNext(r) == [r EXCEPT !.pos = @ + 1]
reject(r, status, message) == [r EXCEPT !.stage = "rejected", !.status = status, !.message = message]

\* authenticateToken looking the account of the token up in the store
authenticateTokenCheckingStore(r, t) ==
    IF r.token = NoToken THEN reject(r, 401, "Access token required")
    ELSE IF jwtVerify(r.token, JWT_SECRET, t) = "TokenExpiredError"
        THEN reject(r, 403, "TOKEN_EXPIRED")
    ELSE IF jwtVerify(r.token, JWT_SECRET, t) = "JsonWebTokenError"
        THEN reject(r, 403, "INVALID_TOKEN")
    ELSE IF \E i \in 1..Len(users) : users[i].id = r.token.userId /\ ~users[i].isActive
        THEN reject(r, 403, "INVALID_TOKEN")
    ELSE callNext([r EXCEPT !.user = principalOf(r.token)])

\* authenticateToken answering 401 without returning: it goes on to next()
authenticateTokenFallsThrough(r, t) ==
    IF r.token = NoToken
    THEN [r EXCEPT !.status = 401, !.message = "Access token required", !.pos = @ + 1]
    ELSE IF jwtVerify(r.token, JWT_SECRET, t) = "TokenExpiredError"
        THEN reject(r, 403, "TOKEN_EXPIRED")
    ELSE IF jwtVerify(r.token, JWT_SECRET, t) = "JsonWebTokenError"
        THEN reject(r, 403, "INVALID_TOKEN")
    ELSE callNext([r EXCEPT !.user = principalOf(r.token)])

authenticateTokenResult(r, t) ==
    IF r.token = NoToken THEN reject(r, 401, "Access token required")
    ELSE IF jwtVerify(r.token, JWT_SECRET, t) = "TokenExpiredError"
        THEN reject(r, 403, "TOKEN_EXPIRED")
    ELSE IF jwtVerify(r.token, JWT_SECRET, t) = "JsonWebTokenError"
        THEN reject(r, 403, "INVALID_TOKEN")
    ELSE callNext([r EXCEPT !.user = principalOf(r.token)])

\* allowedRoles.includes(v)
includes(arr, v) == \E i \in 1..Len(arr) : arr[i] = v

\* arr.join(sep)
RECURSIVE join(_, _)
join(arr, sep) ==
    IF Len(arr) = 0 THEN ""
    ELSE IF Len(arr) = 1 THEN arr[1]
    ELSE arr[1] \o sep \o join(Tail(arr), sep)

accessDenied(allowedRoles, role) ==
    "Access denied. Required roles: " \o join(allowedRoles, ", ") \o ". Your role: " \o role

\* requireRole answering for every principal, whatever its role
requireRoleAnyPrincipal(r, allowedRoles) ==
    IF r.user = NoUser THEN reject(r, 401, "Authentication required")
    ELSE callNext(r)

requireRoleResult(r, allowedRoles) ==
    IF r.user = NoUser THEN reject(r, 401, "Authentication required")
    ELSE IF ~includes(allowedRoles, r.user.role)
        THEN reject(r, 403, accessDenied(allowedRoles, r.user.role))
    ELSE callNext(r)

\* the department code compared: s.substring(0, 2).toUpperCase()
departmentCode(s) == toUpperCase(substring0(s, 2))

\* enforceDepartmentAccess comparing the two prefixes as they are written
enforceDepartmentAccessCaseSensitive(r) ==
    IF r.user = NoUser THEN reject(r, 401, "Authentication required")
    ELSE IF r.user.role = "admin" THEN callNext(r)
    ELSE IF r.user.role = "faculty"
    THEN IF Falsy(r.user.department)
         THEN reject(r, 403, "no department assigned")
         ELSE IF /\ ~Falsy(r.rollNumber)
                 /\ substring0(r.rollNumber, 2) # substring0(r.user.department, 2)
         THEN reject(r, 403, "Student is not in your department")
         ELSE IF ~Falsy(r.bodyDepartment) /\ r.bodyDepartment # r.user.department
         THEN reject(r, 403, "You can only modify data for your department")
         ELSE callNext([r EXCEPT !.departmentFilter = r.user.department])
    ELSE callNext(r)

enforceDepartmentAccessResult(r) ==
    IF r.user = NoUser THEN reject(r, 401, "Authentication required")
    ELSE IF r.user.role = "admin" THEN callNext(r)
    ELSE IF r.user.role = "faculty"
    THEN IF Falsy(r.user.department)
         THEN reject(r, 403, "no department assigned")
         ELSE IF /\ ~Falsy(r.rollNumber)
                 /\ departmentCode(r.rollNumber) # departmentCode(r.user.department)
         THEN reject(r, 403, "Student is not in your department")
         ELSE IF ~Falsy(r.bodyDepartment) /\ r.bodyDepartment # r.user.department
         THEN reject(r, 403, "You can only modify data for your department")
         ELSE callNext([r EXCEPT !.departmentFilter = r.user.department])
    ELSE callNext(r)

\* a request arrives: its route, its bearer token, its path parameters and the
\* department field of its body (account: the account the token was issued for)
Arrive(route, token, rollNumber, department, bodyDepartment) ==
    /\ req.stage # "running"
    /\ req' = [stage |-> "running", route |-> route, pos |-> 1, token |-> token,
               account |-> IF token = held.token THEN held.user ELSE NoUser,
               rollNumber |-> IF route.param = "rollNumber" THEN rollNumber ELSE Undefined,
               department |-> IF route.param = "department" THEN department ELSE Undefined,
               bodyDepartment |-> bodyDepartment,
               user |-> NoUser, departmentFilter |-> Undefined,
               status |-> 0, message |-> ""]
    /\ resp' = NoResp
    /\ UNCHANGED <<users, refreshTokens, now, tasks, held, revoked>>

AuthenticateToken ==
    /\ At("authenticateToken")
    /\ req' = authenticateTokenResult(req, now)
    /\ resp' = [op |-> "authenticateToken", status |-> req'.status]
    /\ UNCHANGED <<users, refreshTokens, now, tasks, held, revoked>>

RequireRole ==
    /\ At("requireRole")
    /\ req' = requireRoleResult(req, req.route.roles)
    /\ resp' = [op |-> "requireRole", status |-> req'.status]
    /\ UNCHANGED <<users, refreshTokens, now, tasks, held, revoked>>

EnforceDepartmentAccess ==
    /\ At("enforceDepartmentAccess")
    /\ req' = enforceDepartmentAccessResult(req)
    /\ resp' = [op |-> "enforceDepartmentAccess", status |-> req'.status]
    /\ UNCHANGED <<users, refreshTokens, now, tasks, held, revoked>>

\* the controller: it reads the parameters and sends them to the ledger
Handler ==
    /\ At("handler")
    /\ req' = [req EXCEPT !.stage = "handled"]
    /\ resp' = [op |-> "handler", route |-> req.route.name]
    /\ UNCHANGED <<users, refreshTokens, now, tasks, held, revoked>>

\* login or refresh issues an access token for the account it read; the chain
\* of a request runs to its controller without yielding
IssueAccessToken(user) ==
    /\ req.stage # "running"
    /\ held' = [token |-> generateAccessToken(user, now), user |-> user]
    /\ resp' = [op |-> "issue"]
    /\ UNCHANGED <<users, refreshTokens, now, tasks, revoked, req>>

----------------------------------------------------------------------------
(* The clock *)

Tick ==
    /\ now < MaxNow
    /\ now' = now + 1
    /\ resp' = NoResp
    /\ UNCHANGED <<users, refreshTokens, tasks, held, revoked, req>>

----------------------------------------------------------------------------
(* The requests and calls the environment makes *)

registerBody(username, password, email, role, department) ==
    [username |-> username, password |-> password, email |-> email, role |-> role,
     department |-> department]

loginBody(username, email, password) ==
    [username |-> username, email |-> email, password |-> password]

UserIds == {users[i].id : i \in 1..Len(users)}

\* the refresh tokens a client can present: those it was given, and a forged one
KnownRefreshTokens == DOMAIN refreshTokens \cup ({revoked} \ {NoToken}) \cup {forgedRefreshToken}

Init ==
    /\ users = defaultUsers
    /\ refreshTokens = EmptyMap
    /\ now = 0
    /\ tasks = [t \in Slots |-> Idle]
    /\ resp = NoResp
    /\ held = NoHeld
    /\ revoked = NoToken
    /\ req = NoReq

----------------------------------------------------------------------------
(* Sessions: login, refresh and logout over the seeded store and the registry *)

SessionLoginBodies ==
    { loginBody("admin", Undefined, "admin123"),
      loginBody(Undefined, "admin@nitw.edu", "admin123"),
      loginBody("admin", Undefined, "hunter22"),
      loginBody("mallory", Undefined, "admin123") }

Next ==
    \/ \E t \in Slots, b \in SessionLoginBodies : LoginStart(t, b)
    \/ \E t \in Slots : LoginResume(t)
    \/ \E rt \in KnownRefreshTokens : Refresh(rt)
    \/ \E rt \in KnownRefreshTokens : Logout(rt)
    \/ \E id \in UserIds : DeleteUser(id)
    \/ Tick

Spec == Init /\ [][Next]_vars

\* C2: once a logout called with a refresh token has completed, no later
\* refresh called with that token succeeds, whatever logins, refreshes and
\* logouts run in between.
C2_LoggedOutTokenStaysRevoked ==
    ~(resp.op = "refresh" /\ resp.status = 200 /\ resp.refreshToken = revoked)

----------------------------------------------------------------------------
(* Accounts: register, then login and refresh with the accounts it made *)

AccountRegisterBodies ==
    { registerBody("bob", "hunter22", "bob@nitw.edu", "student", "CSE"),
      registerBody("bob", "hunter22", "eve@nitw.edu", "admin", Undefined),
      registerBody("eve", "abc", "eve@nitw.edu", "student", "CSE"),
      registerBody("eve", "hunter22", "eve@nitw.edu", "faculty", "CSE") }

AccountLoginBodies ==
    { loginBody(Undefined, "eve@nitw.edu", "hunter22"),
      loginBody("bob", Undefined, "hunter22") }

NextAccounts ==
    \/ \E t \in Slots, b \in AccountRegisterBodies : RegisterStart(t, b)
    \/ \E t \in Slots : RegisterFinish(t)
    \/ \E t \in Slots, b \in AccountLoginBodies : LoginStart(t, b)
    \/ \E t \in Slots : LoginResume(t)
    \/ \E rt \in KnownRefreshTokens : Refresh(rt)
    \/ \E id \in UserIds : DeleteUser(id)
    \/ Tick

SpecAccounts == Init /\ [][NextAccounts]_vars

\* C1: refresh answers with a new access token only when the token it was
\* called with is in the registry, verifies (signature and expiry) and the
\* account the token names is active in the store.
C1_RefreshOnlyForLiveSession ==
    (resp.op = "refresh" /\ resp.status = 200) =>
        /\ resp.refreshToken \in DOMAIN refreshTokens
        /\ jwtVerify(resp.refreshToken, JWT_SECRET, now) = "ok"
        /\ LET i == findUserById(users, resp.refreshToken.userId)
           IN  i # 0 /\ users[i].isActive

\* C7: a caller who never presents the secret of an admin account that already
\* exists gets no access token whose role is admin from register, login and
\* refresh: an admin token is a token of the seeded admin account.
C7_NoPrivilegeEscalation ==
    (resp.op \in {"login", "refresh"} /\ resp.status = 200
        /\ resp.accessToken.role = "admin") =>
        \E i \in 1..Len(defaultUsers) : defaultUsers[i].id = resp.accessToken.userId

----------------------------------------------------------------------------
(* The store: the calls of utils/userManager and the provisioning of student
   accounts, interleaved at their awaits *)

StoreRegisterBodies ==
    { registerBody("admin@nitw.edu", "hunter22", "eve@nitw.edu", "student", "CSE") }

StoreStudents ==
    { [rollNumber |-> "CS25B001", name |-> "Eve", email |-> "eve@nitw.edu",
       department |-> "CSE"] }

StoreUpdates ==
    { [password |-> "hunter22"], [email |-> "root@nitw.edu"] }

Identifiers == {"admin", "admin@nitw.edu"}
Passwords == {"admin123", "hunter22"}

NextStore ==
    \/ \E t \in Slots, b \in StoreRegisterBodies : RegisterStart(t, b)
    \/ \E t \in Slots : RegisterFinish(t)
    \/ \E t \in Slots, d \in StoreStudents : CreateStudentUserStart(t, d)
    \/ \E t \in Slots : CreateStudentUserFinish(t)
    \/ \E t \in Slots, i \in Identifiers, s \in Passwords : AuthenticateUserStart(t, i, s)
    \/ \E t \in Slots : AuthenticateUserFinish(t)
    \/ \E id \in UserIds : DeleteUser(id)
    \/ Tick

SpecStore == Init /\ [][NextStore]_vars

\* C4: in every reachable state of the store no two account records, active or
\* not, have the same username, and no two have the same email.
C4_UniqueUsernameAndEmail ==
    \A i, j \in 1..Len(users) :
        i # j => /\ users[i].username # users[j].username
                 /\ users[i].email # users[j].email

\* C5: for every stored account a and every secret s, authenticateUser called
\* with a's username or a's email and s returns a when s matches a's hash and a
\* is active, and null in every other case.
C5_AuthenticateIffSecretAndActive ==
    \A i \in 1..Len(users), s \in Passwords :
        \A identifier \in {users[i].username, users[i].email} :
            authenticateUser(users, identifier, s) =
                IF Compare(s, users[i].passwordHash) /\ users[i].isActive THEN i ELSE 0

----------------------------------------------------------------------------
(* Credentials: the calls that rewrite an account of the seeded store *)

NextCredentials ==
    \/ \E t \in Slots, old \in Passwords : ChangePasswordStart(t, "admin", old, "hunter22")
    \/ \E t \in Slots : ChangePasswordFinish(t)
    \/ \E t \in Slots, u \in StoreUpdates : UpdateUserStart(t, "admin", u)
    \/ \E t \in Slots : UpdateUserFinish(t)
    \/ \E t \in Slots, i \in Identifiers, s \in Passwords : AuthenticateUserStart(t, i, s)
    \/ \E t \in Slots : AuthenticateUserFinish(t)
    \/ \E id \in UserIds : DeleteUser(id)
    \/ Tick

SpecCredentials == Init /\ [][NextCredentials]_vars

\* C3: when a changePassword with the correct old secret and a deleteUser on
\* the same account overlap, the record has both changes once both calls have
\* completed: the call that completes last keeps what the other one wrote.
C3_NoLostUpdate ==
    [][ /\ \A t \in Slots :
            (/\ tasks[t].op = "changePassword"
             /\ tasks'[t] = Idle
             /\ resp'.op = "changePassword" /\ resp'.error = "none")
            => LET i == tasks[t].index
               IN  /\ users'[i].passwordHash = Hash(tasks[t].newPassword)
                   /\ ~users[i].isActive => ~users'[i].isActive
        /\ (resp'.op = "deleteUser" /\ resp'.error = "none")
            => LET i == findUserById(users, resp'.userId)
               IN  /\ ~users'[i].isActive
                   /\ users'[i].passwordHash = users[i].passwordHash
      ]_vars

----------------------------------------------------------------------------
(* Registration: POST /api/auth/register called again and again *)

RegisterBodies ==
    { registerBody("bob", "hunter22", "bob@nitw.edu", "student", "CSE"),
      registerBody("bob", "hunter22", "eve@nitw.edu", "student", "CSE"),
      registerBody("eve", "hunter22", "bob@nitw.edu", "verifier", Undefined),
      registerBody("bob", "abc", "bob@nitw.edu", "student", "CSE"),
      registerBody("eve", "hunter22", "eve@nitw.edu", "faculty", "CSE") }

NextRegister ==
    \/ \E t \in Slots, b \in RegisterBodies : RegisterStart(t, b)
    \/ \E t \in Slots : RegisterFinish(t)
    \/ \E id \in UserIds : DeleteUser(id)
    \/ Tick

SpecRegister == Init /\ [][NextRegister]_vars

\* the body passes the validation of register and of createUser
WellFormed(b) == registerCheck(<< >>, b) = 0

\* an account with the login or with the email of the body is in the store
Taken(b) ==
    \E i \in 1..Len(users) : users[i].username = b.username \/ users[i].email = b.email

\* C10: a register call whose login or email an earlier register has stored
\* answers 409, changes no record of the store and adds none.
C10_SecondRegisterConflicts ==
    [][ \A t \in Slots, b \in RegisterBodies :
            (RegisterStart(t, b) /\ WellFormed(b) /\ Taken(b))
            => /\ resp' = [op |-> "register", status |-> 409,
                           username |-> b.username, email |-> b.email]
               /\ users' = users
               /\ tasks' = tasks
      ]_vars

C10_Witness ==
    /\ resp.op = "register" /\ resp.status = 409
    /\ \E i \in 1..Len(users) :
          /\ users[i].id # "admin"
          /\ users[i].username = resp.username \/ users[i].email = resp.email

\* C11: from a store without the login and the email, register with role
\* "faculty" and department "CSE" goes on to create the account, the account
\* has role "faculty" and department "CSE", and the access token issued for it
\* carries the Institute namespace, not the Departments namespace.
C11_FacultyRegisters ==
    [][ \A t \in Slots, b \in RegisterBodies :
            (RegisterStart(t, b) /\ b.role = "faculty" /\ b.department = "CSE"
                /\ ~Taken(b))
            => LET a == newUserRecord(b, now)
               IN  /\ tasks'[t].op = "createUser"
                   /\ a.role = "faculty" /\ a.department = "CSE"
                   /\ generateAccessToken(a, now).mspId = MSP_IDS.NITWarangalMSP
      ]_vars

----------------------------------------------------------------------------
(* The routes: access tokens presented to the student and record routes *)

account(id, username, email, role, department) ==
    [id |-> id, username |-> username, email |-> email, role |-> role,
     department |-> department]

\* the accounts tokens are issued for: those of the store, and accounts of the
\* roles the routes name
Accounts ==
    {WithoutPassword(users[i]) : i \in 1..Len(users)} \cup
    { account("faculty-1", "fiona", "fiona@nitw.edu", "faculty", "CSE"),
      account("faculty-2", "frank", "frank@nitw.edu", "faculty", Null),
      account("student-1", "CS25B001", "CS25B001@student.nitw.ac.in", "student", "CSE") }

forgedAccessToken ==
    jwtSign([userId |-> "admin", username |-> "admin", role |-> "admin",
             mspId |-> "NITWarangalMSP", department |-> Null,
             email |-> "admin@nitw.edu"], "guess", JWT_EXPIRY, 0)

RollNumbers == {"CS25B001", "EC25B001", "cs25b001"}
Departments == {"CSE", "ECE"}

\* the values of a path parameter of the route
PathValues(route, param, values) == IF route.param = param THEN values ELSE {Undefined}

\* the department field of the body of a request to the route
BodyDepartments(route) ==
    IF route.enforce THEN {Undefined} \cup Departments ELSE {Undefined}

NextMw ==
    \/ \E a \in Accounts : IssueAccessToken(a)
    \/ \E route \in Routes, token \in {held.token, NoToken, forgedAccessToken} :
          \E r \in PathValues(route, "rollNumber", RollNumbers),
             d \in PathValues(route, "department", Departments),
             bd \in BodyDepartments(route) : Arrive(route, token, r, d, bd)
    \/ AuthenticateToken
    \/ RequireRole
    \/ EnforceDepartmentAccess
    \/ Handler
    \/ \E id \in UserIds : DeleteUser(id)
    \/ Tick

SpecMw == Init /\ [][NextMw]_vars

\* the middleware that has just run let the request on to the next one
Admitted == req.stage = "running"

Rejected(status, message) ==
    req.stage = "rejected" /\ req.status = status /\ req.message = message

\* C6: verifying the access token issued for an account, before its expiry,
\* gives the principal with the account's id, username, role, department and
\* email at issuance and the namespace of its role, whatever the store holds
\* then; from its expiry on the token is rejected as expired.
C6_TokenRoundTrip ==
    (resp.op = "authenticateToken" /\ req.account # NoUser) =>
        LET a == req.account
        IN  IF now < req.token.exp
            THEN /\ Admitted
                 /\ req.user = [userId |-> a.id, username |-> a.username,
                                role |-> a.role, mspId |-> getMSPForRole(a.role),
                                department |-> a.department, email |-> a.email]
            ELSE Rejected(403, "TOKEN_EXPIRED")

\* a token of the seeded admin verifies after the account was deactivated
C6_Witness ==
    /\ resp.op = "authenticateToken" /\ Admitted
    /\ req.account # NoUser /\ req.account.id = "admin"
    /\ ~users[1].isActive

\* C8: a request of a faculty principal of department D reaches the handler of
\* a route that addresses a student by :rollNumber or a department by
\* :department only if the department addressed matches D.
C8_NoCrossDepartmentLeakage ==
    (resp.op = "handler" /\ req.user.role = "faculty" /\ ~Falsy(req.user.department)) =>
        /\ ~Falsy(req.rollNumber) =>
               departmentCode(req.rollNumber) = departmentCode(req.user.department)
        /\ ~Falsy(req.department) => req.department = req.user.department

\* enforceDepartmentAccess has just run on a request that names a student
EnforcedOnRollNumber ==
    resp.op = "enforceDepartmentAccess" /\ ~Falsy(req.rollNumber)

FacultyOfDepartment == req.user.role = "faculty" /\ ~Falsy(req.user.department)

PrefixMatches == departmentCode(req.rollNumber) = departmentCode(req.user.department)

RoleInputs ==
    {"admin", "student", "faculty", "department", "verifier",
     "registrar", "", "Admin", "constructor"}

\* the reference table of the ledger namespaces
ReferenceNamespace(role) ==
    IF role \in {"admin", "student", "faculty"} THEN "NITWarangalMSP"
    ELSE IF role = "department" THEN "DepartmentsMSP"
    ELSE IF role = "verifier" THEN "VerifiersMSP"
    ELSE Null

\* C12: getMSPForRole equals the reference table (admin, student and faculty
\* to the Institute namespace, department to the Departments namespace,
\* verifier to the Verifiers namespace) and is null for every other role.
C12_NamespaceTable ==
    \A role \in RoleInputs \cup {held.user.role} :
        getMSPForRole(role) = ReferenceNamespace(role)

----------------------------------------------------------------------------
\* the order the claim gives the chain
ChainOrder == <<"authenticateToken", "requireRole", "enforceDepartmentAccess", "handler">>

Rank(name) == CHOOSE i \in 1..Len(ChainOrder) : ChainOrder[i] = name

\* C13: the chain of a request runs in the order authenticateToken,
\* requireRole, enforceDepartmentAccess, handler; a middleware either rejects
\* once (the request ends there with 401 or 403, nothing sent before) or calls
\* next() once (the request moves one position on, nothing sent); the handler
\* runs only at the end of the chain, after every middleware before it called
\* next(); a rejected request never reaches the handler.
C13_ChainInOrder ==
    [][ /\ (req.stage = "running" /\ req' # req) =>
            LET c == chain(req.route)
                m == c[req.pos]
            IN  /\ c[1] = "authenticateToken" /\ c[Len(c)] = "handler"
                /\ \A i, j \in 1..Len(c) : i < j => Rank(c[i]) < Rank(c[j])
                /\ req.status = 0
                /\ resp' \in { [op |-> m, status |-> req'.status],
                               [op |-> m, route |-> req.route.name] }
                /\ IF m = "handler"
                   THEN req.pos = Len(c) /\ req'.stage = "handled" /\ req'.status = 0
                   ELSE \/ /\ req'.stage = "running" /\ req'.pos = req.pos + 1
                            /\ req'.status = 0
                        \/ /\ req'.stage = "rejected" /\ req'.pos = req.pos
                            /\ req'.status \in {401, 403}
        /\ req.stage = "rejected" => req'.stage # "handled"
      ]_vars

C13_Witness ==
    /\ req.stage = "handled" /\ req.route.enforce /\ req.route.roles # NoRoles
    /\ req.pos = 4 /\ req.user.role = "faculty"

\* does s contain sub
Contains(s, sub) ==
    \E i \in 1..(Len(s) - Len(sub) + 1) : SubSeq(s, i, i + Len(sub) - 1) = sub

\* C18: requireRole calls next() iff the request carries a principal whose
\* role is in allowedRoles; otherwise it answers, without calling next(), 401
\* when there is no principal and 403 with the allow-list and the actual role
\* in the message when the role is not allowed.
C18_RequireRole ==
    resp.op = "requireRole" =>
        LET allowedRoles == req.route.roles
            noPrincipal == requireRoleResult([req EXCEPT !.user = NoUser], allowedRoles)
        IN  /\ Admitted <=> \E i \in 1..Len(allowedRoles) : allowedRoles[i] = req.user.role
            /\ Admitted => req.status = 0
            /\ ~Admitted =>
                  /\ req.stage = "rejected" /\ req.status = 403
                  /\ chain(req.route)[req.pos] = "requireRole"
                  /\ \A i \in 1..Len(allowedRoles) : Contains(req.message, allowedRoles[i])
                  /\ Contains(req.message, "Your role: " \o req.user.role)
            /\ noPrincipal.stage = "rejected" /\ noPrincipal.status = 401
            /\ noPrincipal.pos = req.pos

C18_Witness ==
    /\ resp.op = "requireRole" /\ req.stage = "rejected"
    /\ req.user.role = "student" /\ req.route.roles = <<"admin", "faculty">>
    /\ req.message = "Access denied. Required roles: admin, faculty. Your role: student"

----------------------------------------------------------------------------
(* Registration of a new account while the secret of the seeded account is
   changed: createUser, changePassword and updateUser with a password *)

WriterRegisterBodies == {registerBody("bob", "hunter22", "bob@nitw.edu", "student", "CSE")}

NextWriters ==
    \/ \E t \in Slots, b \in WriterRegisterBodies : RegisterStart(t, b)
    \/ \E t \in Slots : RegisterFinish(t)
    \/ \E t \in Slots : ChangePasswordStart(t, "admin", "admin123", "hunter22")
    \/ \E t \in Slots : ChangePasswordFinish(t)
    \/ \E t \in Slots : UpdateUserStart(t, "admin", [password |-> "hunter22"])
    \/ \E t \in Slots : UpdateUserFinish(t)
    \/ Tick

SpecWriters == Init /\ [][NextWriters]_vars

\* C14: when createUser for a new account runs concurrently with
\* changePassword or updateUser(password) on another, existing account, no
\* persisted record ever disappears: every account of the store is still in
\* the store after each write, and a completed change of secret leaves the
\* new hash on its account.
C14_NoRecordDisappears ==
    [][ /\ \A i \in 1..Len(users) :
              \E j \in 1..Len(users') : users'[j].username = users[i].username
        /\ \A t \in Slots :
              (tasks[t].op \in {"changePassword", "updateUser"} /\ tasks'[t] = Idle
                   /\ resp'.error = "none")
              => users'[findUserById(users', tasks[t].userId)].passwordHash = Hash("hunter22")
      ]_vars

----------------------------------------------------------------------------
(* The store file may fail to be read (ok = FALSE): loadUsers catches the
   error and returns an empty array.  The account operations below are those
   above with the outcome of their read made explicit; what they answer
   carries that outcome. *)

loadUsers(ok) == IF ok THEN users ELSE << >>

\* createUser after bcrypt.hash: loadUsers(), push, saveUsers
RegisterFinishRead(t, ok) ==
    /\ tasks[t].op = "createUser"
    /\ LET newUser == newUserRecord(tasks[t].data, now)
       IN  /\ users' = Append(loadUsers(ok), newUser)
           /\ resp' = [op |-> "register", status |-> 201,
                       username |-> newUser.username, email |-> newUser.email,
                       user |-> userView(newUser), read |-> ok]
    /\ tasks' = [tasks EXCEPT ![t] = Idle]
    /\ UNCHANGED <<refreshTokens, now, held, revoked, req>>

DeleteUserRead(userId, ok) ==
    LET us == loadUsers(ok)
        i == findUserById(us, userId)
    IN  /\ IF i = 0
           THEN /\ users' = users
                /\ resp' = [op |-> "deleteUser", userId |-> userId,
                            error |-> "User not found", read |-> ok]
           ELSE /\ users' = [us EXCEPT ![i] = Merge(@, [isActive |-> FALSE, updatedAt |-> now])]
                /\ resp' = [op |-> "deleteUser", userId |-> userId, error |-> "none",
                            read |-> ok]
        /\ UNCHANGED <<refreshTokens, now, tasks, held, revoked, req>>

\* authenticateUser up to bcrypt.compare
AuthenticateUserStartRead(t, identifier, password, ok) ==
    /\ Free(t)
    /\ LET us == loadUsers(ok)
           i == authenticatePending(us, identifier)
       IN  IF i = 0
           THEN /\ tasks' = tasks
                /\ resp' = [op |-> "authenticateUser", identifier |-> identifier,
                            password |-> password, found |-> FALSE, read |-> ok]
           ELSE /\ tasks' = [tasks EXCEPT ![t] =
                        [op |-> "authenticateUser", identifier |-> identifier,
                         password |-> password, user |-> us[i]]]
                /\ resp' = NoResp
    /\ UNCHANGED <<users, refreshTokens, now, held, revoked, req>>

ReadOutcomes == BOOLEAN

NextIo ==
    \/ \E t \in Slots, b \in WriterRegisterBodies : RegisterStart(t, b)
    \/ \E t \in Slots, ok \in ReadOutcomes : RegisterFinishRead(t, ok)
    \/ \E id \in UserIds, ok \in ReadOutcomes : DeleteUserRead(id, ok)
    \/ \E t \in Slots, i \in Identifiers, ok \in ReadOutcomes :
          AuthenticateUserStartRead(t, i, "admin123", ok)
    \/ \E t \in Slots : AuthenticateUserFinish(t)
    \/ Tick

SpecIo == Init /\ [][NextIo]_vars

\* what an operation answers is an internal failure: neither a success nor
\* invalid credentials, not found or conflict
InternalFailure(r) ==
    \/ "status" \in DOMAIN r /\ r.status = 500
    \/ "error" \in DOMAIN r
          /\ r.error \notin {"none", "User not found", "Username already exists",
                              "Email already exists", "Current password is incorrect"}

\* C15: when reading the store file fails during an account operation, the
\* operation reports an internal failure, distinct from invalid credentials,
\* not found and conflict, and the persisted collection is unchanged: a
\* failed read is never taken for an empty collection.
C15_ReadFailureReported ==
    [][ ("read" \in DOMAIN resp' /\ ~resp'.read)
            => users' = users /\ InternalFailure(resp') ]_vars

----------------------------------------------------------------------------
(* The records the read paths of userManager return *)

\* users.find(...) || null: the record itself, as it is stored
found(us, i) == IF i = 0 THEN Null ELSE us[i]

getAllUsers(us, filters) ==
    LET byRole(u) == Falsy(field(filters, "role")) \/ u.role = filters.role
        byDepartment(u) == Falsy(field(filters, "department")) \/ u.department = filters.department
        byActive(u) == "isActive" \notin DOMAIN filters \/ u.isActive = filters.isActive
        kept == SelectSeq(SelectSeq(SelectSeq(us, byRole), byDepartment), byActive)
    IN  [i \in 1..Len(kept) |-> WithoutPassword(kept[i])]

Filters == {<< >>, [role |-> "admin"], [isActive |-> TRUE], [department |-> "CSE"]}

\* the records returned for the accounts of the store
ReturnedRecords ==
    UNION { { found(users, findUserByUsername(users, users[i].username)),
              found(users, findUserByEmail(users, users[i].email)),
              found(users, findUserById(users, users[i].id)) } : i \in 1..Len(users) }
    \cup UNION { {getAllUsers(users, f)[i] : i \in 1..Len(getAllUsers(users, f))} : f \in Filters }
    \cup (IF "user" \in DOMAIN resp THEN {resp.user} ELSE {})

\* C16: no record returned by findUserByUsername, findUserByEmail,
\* findUserById, getAllUsers, createUser, updateUser or authenticateUser
\* carries the passwordHash field.
C16_NoSecretReturned ==
    \A r \in ReturnedRecords : "passwordHash" \notin DOMAIN r

----------------------------------------------------------------------------
(* DepartmentController.createDepartment, from the commit of its ledger
   transaction on: it provisions the login account of the department *)

\* the userData createDepartment gives createUser
departmentUser(body) ==
    LET departmentId == toUpperCase(body.departmentId)
    IN  [username |-> departmentId,
         password |-> IF Len(departmentId) >= 6
                      THEN departmentId ELSE departmentId \o "123",
         email |-> body.email, role |-> "department", department |-> departmentId]

CreateDepartmentStart(t, role, body) ==
    /\ Free(t)
    /\ Room
    /\ IF role # "admin"
       THEN /\ resp' = [op |-> "createDepartment", status |-> 403]
            /\ UNCHANGED tasks
       ELSE LET e == createUserCheck(users, departmentUser(body))
            IN  IF e = "ok"
                THEN /\ tasks' = [tasks EXCEPT ![t] =
                             [op |-> "createDepartment", data |-> departmentUser(body)]]
                     /\ resp' = NoResp
                ELSE /\ resp' = [op |-> "createDepartment", status |-> 201, warning |-> e]
                     /\ UNCHANGED tasks
    /\ UNCHANGED <<users, refreshTokens, now, held, revoked, req>>

\* createUser after bcrypt.hash, and the answer of createDepartment
CreateDepartmentFinish(t) ==
    /\ tasks[t].op = "createDepartment"
    /\ users' = Append(users, newUserRecord(tasks[t].data, now))
    /\ resp' = [op |-> "createDepartment", status |-> 201, warning |-> "none"]
    /\ tasks' = [tasks EXCEPT ![t] = Idle]
    /\ UNCHANGED <<refreshTokens, now, held, revoked, req>>

DepartmentBodies == {[departmentId |-> "cse", email |-> "cse@nitw.edu"]}

DepartmentRegisterBodies ==
    { registerBody("bob", "hunter22", "bob@nitw.edu", "student", "CSE"),
      registerBody("eve", "hunter22", "eve@nitw.edu", "verifier", "CSE") }

DepartmentUpdates == {[department |-> "CSE"], [email |-> "root@nitw.edu"]}

NextDepartments ==
    \/ \E t \in Slots, role \in {"admin", "faculty"}, body \in DepartmentBodies :
          CreateDepartmentStart(t, role, body)
    \/ \E t \in Slots : CreateDepartmentFinish(t)
    \/ \E t \in Slots, b \in DepartmentRegisterBodies : RegisterStart(t, b)
    \/ \E t \in Slots : RegisterFinish(t)
    \/ \E t \in Slots, u \in DepartmentUpdates : UpdateUserStart(t, "admin", u)
    \/ Tick

SpecDepartments == Init /\ [][NextDepartments]_vars

\* C17: after registrations, department provisioning and updateUser, each
\* account record has a non-null department iff its role is student or
\* faculty.
C17_DepartmentIffStudentOrFaculty ==
    \A i \in 1..Len(users) :
        users[i].department # Null <=> users[i].role \in {"student", "faculty"}

----------------------------------------------------------------------------
\* the answer to a failed login
InvalidCredentials == [op |-> "login", status |-> 401, message |-> "Invalid credentials"]

----------------------------------------------------------------------------
\* C20: changePassword replaces the hash of the account iff the old secret
\* matches the hash stored when it verifies it (the record it has just read);
\* on a mismatch it fails with the error "Current password is incorrect",
\* which the endpoint answers with 400, and the store is unchanged.
C20_ChangePasswordIffOldMatches ==
    [][ \A t \in Slots :
          (tasks[t].op = "changePassword" /\ tasks'[t] = Idle) =>
              LET task == tasks[t]
                  i == findUserById(task.users, task.userId)
                  stored == task.users[i].passwordHash
              IN  IF stored = Hash(task.oldPassword)
                  THEN /\ users'[i].passwordHash = Hash(task.newPassword)
                       /\ resp' = [op |-> "changePassword", userId |-> task.userId,
                                   error |-> "none", status |-> 200,
                                   newPassword |-> task.newPassword]
                  ELSE /\ users' = users
                       /\ resp' = [op |-> "changePassword", userId |-> task.userId,
                                   error |-> "Current password is incorrect",
                                   status |-> 400]
      ]_vars

\* a second change with the old secret has been refused after the first one
C20_Witness ==
    /\ resp = [op |-> "changePassword", userId |-> "admin",
               error |-> "Current password is incorrect", status |-> 400]
    /\ users[1].passwordHash = Hash("hunter22")

----------------------------------------------------------------------------
\* a record without the time of its last write
WithoutUpdatedAt(user) == [k \in DOMAIN user \ {"updatedAt"} |-> user[k]]

\* C21: deleteUser(id) on an existing account is a soft delete: the record
\* stays in the store with isActive false, every other account and every field
\* of the account other than isActive and updatedAt are as before; on an
\* account that is already inactive it succeeds again and leaves the account,
\* updatedAt apart, as the first call left it.
C21_SoftDeleteIdempotent ==
    [][ (resp'.op = "deleteUser" /\ findUserById(users, resp'.userId) # 0) =>
            LET i == findUserById(users, resp'.userId)
            IN  /\ resp' = [op |-> "deleteUser", userId |-> users[i].id, error |-> "none"]
                /\ Len(users') = Len(users)
                /\ ~users'[i].isActive
                /\ \A j \in 1..Len(users) : j # i => users'[j] = users[j]
                /\ DOMAIN users'[i] = DOMAIN users[i] \cup {"updatedAt"}
                /\ \A k \in DOMAIN users[i] \ {"isActive", "updatedAt"} :
                      users'[i][k] = users[i][k]
                /\ ~users[i].isActive
                      => WithoutUpdatedAt(users'[i]) = WithoutUpdatedAt(users[i])
      ]_vars

\* the seeded account has been deactivated while another account is stored
C21_Witness ==
    /\ resp = [op |-> "deleteUser", userId |-> "admin", error |-> "none"]
    /\ ~users[1].isActive
    /\ Len(users) >= 2 /\ users[2].isActive
    /\ users[1].updatedAt = now /\ now > 0

----------------------------------------------------------------------------
\* refresh(rt) would succeed on this registry, store and clock
Refreshable(rt, registry, us, t) ==
    /\ rt \in DOMAIN registry
    /\ jwtVerify(rt, JWT_SECRET, t) = "ok"
    /\ findUserByUsername(us, rt.username) # 0
    /\ us[findUserByUsername(us, rt.username)].isActive

\* C22: a successful refresh(rt) leaves the refresh-token registry as it was:
\* rt is still registered, nothing is added, and refresh(rt) succeeds again as
\* long as rt has not expired, has not been revoked and its account is active.
C22_RefreshDoesNotRotate ==
    [][ (resp'.op = "refresh" /\ resp'.status = 200) =>
            /\ refreshTokens' = refreshTokens
            /\ Refreshable(resp'.refreshToken, refreshTokens', users', now')
      ]_vars

\* rt has been refreshed in a later second than it was issued in
C22_Witness ==
    /\ resp.op = "refresh" /\ resp.status = 200
    /\ resp.refreshToken \in DOMAIN refreshTokens
    /\ resp.refreshToken.iat < now
    /\ resp.accessToken.iat = now

----------------------------------------------------------------------------
(* Verification of access tokens next to the sessions: the certificate routes
   run authenticateToken or optionalAuth before their controller *)

\* optionalAuth: req.user is the principal of a valid token, null otherwise, and
\* next() is called in every case
optionalAuthResult(r, t) ==
    IF r.token = NoToken THEN callNext([r EXCEPT !.user = NoUser])
    ELSE IF jwtVerify(r.token, JWT_SECRET, t) = "ok"
        THEN callNext([r EXCEPT !.user = principalOf(r.token)])
    ELSE callNext([r EXCEPT !.user = NoUser])

certificateRoutes ==
    { Route("GET /certificates/requests", NoRoles, FALSE, "none"),
      Route("GET /certificates/:certificateID", NoRoles, FALSE, "none") }

\* a request as it reaches the first middleware of its route
request(route, token) ==
    [stage |-> "running", route |-> route, pos |-> 1, token |-> token,
     account |-> IF token = held.token THEN held.user ELSE NoUser,
     rollNumber |-> Undefined, department |-> Undefined, bodyDepartment |-> Undefined,
     user |-> NoUser, departmentFilter |-> Undefined, status |-> 0, message |-> ""]

\* GET /certificates/requests: authenticateToken runs on the request
AuthenticateRequest(token) ==
    /\ req.stage # "running"
    /\ req' = authenticateTokenResult(
                  request(Route("GET /certificates/requests", NoRoles, FALSE, "none"), token), now)
    /\ resp' = [op |-> "authenticateToken", status |-> req'.status]
    /\ UNCHANGED <<users, refreshTokens, now, tasks, held, revoked>>

\* GET /certificates/:certificateID: optionalAuth runs on the request
OptionalAuthRequest(token) ==
    /\ req.stage # "running"
    /\ req' = optionalAuthResult(
                  request(Route("GET /certificates/:certificateID", NoRoles, FALSE, "none"), token), now)
    /\ resp' = [op |-> "optionalAuth", status |-> req'.status]
    /\ UNCHANGED <<users, refreshTokens, now, tasks, held, revoked>>

VerifyLoginBodies == {loginBody("admin", Undefined, "admin123")}

NextVerify ==
    \/ \E t \in Slots, b \in VerifyLoginBodies : LoginStart(t, b)
    \/ \E t \in Slots : LoginResume(t)
    \/ \E rt \in DOMAIN refreshTokens : Logout(rt)
    \/ \E id \in UserIds : DeleteUser(id)
    \/ \E i \in 1..Len(users) : IssueAccessToken(WithoutPassword(users[i]))
    \/ \E token \in {held.token, NoToken, forgedAccessToken} : AuthenticateRequest(token)
    \/ \E token \in {held.token, NoToken, forgedAccessToken} : OptionalAuthRequest(token)
    \/ Handler
    \/ Tick

SpecVerify == Init /\ [][NextVerify]_vars

\* what verifying a token gives, from the token, the secret and the time alone:
\* "none", "invalid", "expired" or "valid"
Verdict(token, secret, t) ==
    IF token = NoToken THEN "none"
    ELSE IF token.key # secret THEN "invalid"
    ELSE IF t >= token.exp THEN "expired"
    ELSE "valid"

\* C23: verifying an access token, by authenticateToken or by optionalAuth,
\* leaves the refresh-token registry and the user store unchanged for every
\* token, valid, expired or malformed, and its outcome is a function of the
\* token, the signing secret and the current time.
C23_VerificationIsPure ==
    [][ (resp'.op \in {"authenticateToken", "optionalAuth"}) =>
            LET v == Verdict(req'.token, JWT_SECRET, now)
                principal == [k \in {"userId", "username", "role", "mspId", "department", "email"}
                                 |-> req'.token[k]]
            IN  /\ users' = users /\ refreshTokens' = refreshTokens
                /\ resp'.op = "authenticateToken" =>
                      /\ v = "none" => req'.stage = "rejected" /\ req'.status = 401
                      /\ v \in {"invalid", "expired"} => req'.stage = "rejected" /\ req'.status = 403
                      /\ v = "valid" => req'.stage = "running" /\ req'.user = principal
                /\ resp'.op = "optionalAuth" =>
                      /\ req'.stage = "running" /\ req'.status = 0
                      /\ req'.user = IF v = "valid" THEN principal ELSE NoUser
      ]_vars

\* a valid token is verified while a session is registered and the account of
\* the token has been deactivated
C23_Witness ==
    /\ resp.op = "authenticateToken" /\ req.stage = "running"
    /\ req.user.userId = "admin"
    /\ ~users[1].isActive
    /\ DOMAIN refreshTokens # {}

----------------------------------------------------------------------------
(* The ledger session of a record route: RecordController calls
   FabricGateway.connect with the userId of the principal; connect signs with
   the wallet identity of that name, or with the admin identity when the
   wallet has none.  A wallet is the namespace of each identity it holds. *)

adminUserId == "admin"

Wallets ==
    { [admin |-> "NITWarangalMSP"],
      [admin |-> "NITWarangalMSP", verifier |-> "VerifiersMSP"] }

\* mspMapper.getFabricIdentity
getFabricIdentity(user) ==
    IF user.role = "admin" THEN "admin"
    ELSE IF user.role = "student" THEN "admin"
    ELSE IF user.role = "department" THEN "admin"
    ELSE IF user.role = "verifier" THEN "verifier"
    ELSE user.userId

\* FabricGateway.connect(userId): the identity it signs with
connect(wallet, userId) ==
    IF userId \in DOMAIN wallet THEN userId
    ELSE IF adminUserId \in DOMAIN wallet THEN adminUserId
    ELSE "none"

\* the userId the controller of the route connects with
connectUserId(r) ==
    IF r.route.name = "POST /records/:recordID/approve" THEN "admin" ELSE r.user.userId

\* the controller of a record route: it validates the body, where it has one,
\* and opens the ledger session
RecordHandler(wallet, complete) ==
    /\ At("handler")
    /\ req' = [req EXCEPT !.stage = "handled"]
    /\ resp' = IF req.route.name = "POST /records" /\ ~complete
               THEN [op |-> "handler", route |-> req.route.name, status |-> 400]
               ELSE [op |-> "connect", route |-> req.route.name,
                     identity |-> connect(wallet, connectUserId(req)),
                     namespace |-> wallet[connect(wallet, connectUserId(req))]]
    /\ UNCHANGED <<users, refreshTokens, now, tasks, held, revoked>>

LedgerAccounts ==
    {WithoutPassword(users[i]) : i \in 1..Len(users)} \cup
    { account("faculty-1", "fiona", "fiona@nitw.edu", "faculty", "CSE"),
      account("student-1", "CS25B001", "CS25B001@student.nitw.ac.in", "student", "CSE"),
      account("verifier", "victor", "victor@nitw.edu", "verifier", Null) }

NextLedger ==
    \/ \E a \in LedgerAccounts : IssueAccessToken(a)
    \/ \E route \in recordRoutes, token \in {held.token, NoToken} :
          \E r \in PathValues(route, "rollNumber", {"CS25B001"}),
             d \in PathValues(route, "department", {"CSE"}),
             bd \in BodyDepartments(route) : Arrive(route, token, r, d, bd)
    \/ AuthenticateToken
    \/ RequireRole
    \/ EnforceDepartmentAccess
    \/ \E wallet \in Wallets, complete \in BOOLEAN : RecordHandler(wallet, complete)
    \/ Tick

SpecLedger == Init /\ [][NextLedger]_vars

\* C24: for every admitted request of a principal p that opens a ledger
\* session, connect signs with the identity getFabricIdentity(p), whose
\* namespace is p's mspId; an operation of a principal that is not admin is
\* never signed with the admin wallet identity.
C24_SignsAsPrincipal ==
    (resp.op = "connect" /\ req.stage = "handled") =>
        /\ resp.identity = getFabricIdentity(req.user)
        /\ resp.namespace = req.user.mspId
        /\ req.user.role # "admin" => resp.identity # adminUserId

----------------------------------------------------------------------------
(* enforceDepartmentAccess applied to the requests of authenticated principals *)

EnforcedRoutes == {route \in Routes : route.enforce}

EnforcePrincipals ==
    { principalOf(generateAccessToken(a, 0)) :
        a \in { account("admin", "admin", "admin@nitw.edu", "admin", Null),
                account("faculty-1", "fiona", "fiona@nitw.edu", "faculty", "CSE"),
                account("faculty-2", "frank", "frank@nitw.edu", "faculty", Null),
                account("faculty-3", "fred", "fred@nitw.edu", "faculty", ""),
                account("department-1", "CSE", "cse@nitw.edu", "department", "CSE"),
                account("department-2", "dora", "dora@nitw.edu", "department", Null),
                account("student-1", "CS25B001", "CS25B001@student.nitw.ac.in", "student", "CSE") } }

EnforceBodyDepartments == {Undefined, "CSE", "cse", "ECE"}

\* the request as requireRole hands it to enforceDepartmentAccess
EnforceRequest(route, principal, rollNumber, bodyDepartment) ==
    /\ req' = enforceDepartmentAccessResult(
                  [stage |-> "running", route |-> route,
                   pos |-> CHOOSE i \in 1..Len(chain(route)) :
                               chain(route)[i] = "enforceDepartmentAccess",
                   token |-> NoToken, account |-> NoUser,
                   rollNumber |-> rollNumber, department |-> Undefined,
                   bodyDepartment |-> bodyDepartment, user |-> principal,
                   departmentFilter |-> Undefined, status |-> 0, message |-> ""])
    /\ resp' = [op |-> "enforceDepartmentAccess", status |-> req'.status]
    /\ UNCHANGED <<users, refreshTokens, now, tasks, held, revoked>>

NextEnforce ==
    \/ \E route \in EnforcedRoutes, principal \in EnforcePrincipals,
          bd \in EnforceBodyDepartments :
          \E r \in PathValues(route, "rollNumber", RollNumbers) :
             EnforceRequest(route, principal, r, bd)
    \/ Tick

SpecEnforce == Init /\ [][NextEnforce]_vars

\* C25: for a faculty principal of department D and a request whose body has
\* a department field B, enforceDepartmentAccess admits the request iff B
\* equals D compared without regard to case; otherwise it rejects it with 403
\* and a mismatch message (the request names no student of another
\* department, which is rejected before the body is looked at).
C25_BodyDepartmentCaseInsensitive ==
    (/\ resp.op = "enforceDepartmentAccess"
     /\ req.user.role = "faculty" /\ ~Falsy(req.user.department)
     /\ ~Falsy(req.bodyDepartment)
     /\ Falsy(req.rollNumber)
          \/ departmentCode(req.rollNumber) = departmentCode(req.user.department)) =>
        IF toUpperCase(req.bodyDepartment) = toUpperCase(req.user.department)
        THEN Admitted
        ELSE Rejected(403, "You can only modify data for your department")

\* C26: enforceDepartmentAccess rejects with 403 "no department assigned",
\* without calling next(), every principal whose role is department or faculty
\* and whose department is null or empty.
C26_NoDepartmentRejected ==
    (/\ resp.op = "enforceDepartmentAccess"
     /\ req.user.role \in {"department", "faculty"}
     /\ req.user.department \in {Null, ""}) =>
        Rejected(403, "no department assigned")

----------------------------------------------------------------------------
(* DepartmentController: the department-scoped operations, behind
   authenticateToken and requireRole('department', 'admin') *)

DepartmentOperations ==
    {"getDepartmentProfile", "getDepartmentCourses", "getStudentsByDepartment",
     "getRecordsByDepartment", "createCourseOffering"}

\* the check comparing the two department codes as they are written
departmentAccessCaseSensitive(principal, departmentId) ==
    LET userDept == IF ~Falsy(principal.department) THEN principal.department ELSE Null
    IN  principal.role = "admin" \/ userDept = departmentId

\* role !== 'admin' && userDept !== departmentId answers 403
departmentAccess(principal, departmentId) ==
    LET target == toUpperCase(departmentId)
        userDept == IF ~Falsy(principal.department)
                    THEN toUpperCase(principal.department) ELSE Null
    IN  principal.role = "admin" \/ userDept = target

DepartmentPrincipals ==
    { principalOf(generateAccessToken(a, 0)) :
        a \in { account("admin", "admin", "admin@nitw.edu", "admin", Null),
                account("department-1", "CSE", "cse@nitw.edu", "department", "CSE"),
                account("department-2", "ece", "ece@nitw.edu", "department", "ece"),
                account("department-3", "dora", "dora@nitw.edu", "department", Null),
                account("department-4", "dan", "dan@nitw.edu", "department", "") } }

DepartmentIds == {"CSE", "cse", "ECE", "null"}

\* one of the operations, up to the opening of its ledger session: 403 from the
\* department check, 401 when the wallet has no admin identity
DepartmentOperation(operation, principal, departmentId, wallet) ==
    /\ resp' = [op |-> operation, principal |-> principal, departmentId |-> departmentId,
                status |-> IF ~departmentAccess(principal, departmentId) THEN 403
                           ELSE IF adminUserId \notin DOMAIN wallet THEN 401
                           ELSE 0]
    /\ UNCHANGED <<users, refreshTokens, now, tasks, held, revoked, req>>

DepartmentWallets == Wallets \cup {[verifier |-> "VerifiersMSP"]}

NextDepartmentOperations ==
    \/ \E operation \in DepartmentOperations, principal \in DepartmentPrincipals,
          departmentId \in DepartmentIds, wallet \in DepartmentWallets :
          DepartmentOperation(operation, principal, departmentId, wallet)
    \/ Tick

SpecDepartmentOperations == Init /\ [][NextDepartmentOperations]_vars

\* C27: a department-scoped operation goes on to the ledger iff the role of
\* the principal is admin or its department, uppercased, is the target
\* department code, uppercased; a principal that is not admin and has no
\* department is always denied with 403.  (Past the check the operation opens
\* its session with the admin identity of the wallet, 401 when there is none.)
C27_DepartmentScoped ==
    resp.op \in DepartmentOperations =>
        LET p == resp.principal
            own == /\ p.department \notin {Null, Undefined, ""}
                   /\ toUpperCase(p.department) = toUpperCase(resp.departmentId)
        IN  /\ resp.status # 403 <=> (p.role = "admin" \/ own)
            /\ resp.status \in {0, 401, 403}
            /\ (p.role # "admin" /\ p.department \in {Null, Undefined, ""}) => resp.status = 403

\* a department principal has been let through to the ledger for its own
\* department, written in another case
C27_Witness ==
    /\ resp.op = "getRecordsByDepartment" /\ resp.status = 0
    /\ resp.principal.role = "department" /\ resp.principal.department = "ece"
    /\ resp.departmentId = "ECE"

----------------------------------------------------------------------------
\* C28: no access token and no refresh token is issued for an account while
\* the store records it as inactive: after deleteUser(id) has completed, no
\* login and no refresh, one that was in flight included, answers with a
\* token of that account.
C28_NoTokenForInactiveAccount ==
    [][ (resp'.op \in {"login", "refresh"} /\ resp'.status = 200) =>
            LET i == findUserById(users', resp'.accessToken.userId)
            IN  i # 0 /\ users'[i].isActive
      ]_vars

----------------------------------------------------------------------------
(* updateUser called with updates that name fields it does not allow *)

FrameUpdates ==
    { [id |-> "root", username |-> "root", role |-> "verifier"],
      [role |-> "student", department |-> "CSE", password |-> "hunter22"],
      [username |-> "mallory", email |-> "root@nitw.edu", isActive |-> TRUE] }

NextFrame ==
    \/ \E t \in Slots, id \in UserIds, u \in FrameUpdates : UpdateUserStart(t, id, u)
    \/ \E t \in Slots : UpdateUserFinish(t)
    \/ \E t \in Slots, id \in UserIds, old \in Passwords :
          ChangePasswordStart(t, id, old, "hunter22")
    \/ \E t \in Slots : ChangePasswordFinish(t)
    \/ \E id \in UserIds : DeleteUser(id)
    \/ Tick

SpecFrame == Init /\ [][NextFrame]_vars

\* C29: the id, the username and the role of an account never change after
\* its creation: updateUser, whatever its updates name, deleteUser and
\* changePassword leave the three fields of every stored account as they are.
C29_IdentityFieldsFrozen ==
    [][ /\ Len(users') = Len(users)
        /\ \A i \in 1..Len(users) :
              /\ users'[i].id = users[i].id
              /\ users'[i].username = users[i].username
              /\ users'[i].role = users[i].role
      ]_vars

\* an update naming role and department has been applied after its await: the
\* department is written, the role is not
C29_Witness ==
    /\ resp = [op |-> "updateUser", userId |-> "admin", error |-> "none"]
    /\ users[1].department = "CSE"
    /\ users[1].passwordHash = Hash("hunter22")
    /\ users[1].role = "admin"

----------------------------------------------------------------------------
\* C30: sessions are independent: a successful login registers a refresh
\* token distinct from the refresh tokens other logins registered, those of
\* the same account in the same second included, so that logout(rt1) takes
\* rt1 alone out of the registry and leaves the token of any other login
\* registered.
C30_SessionsIndependent ==
    [][ /\ (resp'.op = "login" /\ resp'.status = 200) =>
              /\ resp'.refreshToken \notin DOMAIN refreshTokens
              /\ DOMAIN refreshTokens' = DOMAIN refreshTokens \cup {resp'.refreshToken}
        /\ resp'.op = "logout" =>
              DOMAIN refreshTokens' = DOMAIN refreshTokens \ {resp'.refreshToken}
      ]_vars

====
